---- MODULE Spec2Model ----
(***************************************************************************)
(* Model of the calendar API gateway (src/main.go): a read-through cache   *)
(* in front of one upstream JSON API.  Every inbound request is one task   *)
(* running withCORS -> handler -> serveCached; tasks share the map `cache` *)
(* and the reader/writer lock `cacheMutex`.                                *)
(*                                                                         *)
(* Time is counted in minutes.  Strings that the code slices or matches    *)
(* character by character (the event id) are sequences of one-character    *)
(* strings; an upstream URL is the sequence of its concatenated parts.     *)
(***************************************************************************)
EXTENDS Integers, Sequences, FiniteSets

\* ---------------------------------------------------------------- bounds
\* the clock runs from 0 to MaxTime
MaxTime == 6
\* number of inbound requests of a run, one task each
NTasks == 2

\* ------------------------------------------------------ program constants
baseUpstream == "https://calman02.barrierefrei.berlin/calendar/api/v1"
cacheTTL == 5
StatusOK == 200
StatusNoContent == 204
StatusBadRequest == 400
StatusMethodNotAllowed == 405
StatusBadGateway == 502
\* the statuses the origin may answer with
UpstreamStatuses == {StatusOK, 500}
\* length, in bytes, of every upstream body
BodyLen == 2

Tasks == 1..NTasks
Digits == {"0", "1", "2", "3", "4", "5", "6", "7", "8", "9"}
Methods == {"GET", "POST", "OPTIONS"}

eventsPattern == "/api/calendar/events"
genresPattern == "/api/calendar/genres"
eventPattern == "/api/calendar/event/"

\* the identifiers a client may put after /api/calendar/event/
IdInputs ==
    { <<"1", "2", "3">>, <<"0">>, <<"1", "2", "a">>, <<"-", "1">>, <<>>,
      <<"1", " ", "2">> }

\* r.URL.Path of the requests a client may send: the matched pattern
\* followed by the characters after it
Paths ==
    { <<eventsPattern>>, <<genresPattern>> } \cup
    { <<eventPattern>> \o i : i \in IdInputs }

\* ------------------------------------------------------------- payloads
\* A byte sequence is represented by where it comes from: `origin` and
\* `ver` name the upstream response, `len` how many of its BodyLen bytes
\* are present, `text` a literal produced by the gateway itself.
NoBytes == [origin |-> <<>>, ver |-> 0, len |-> 0, text |-> ""]
Text(msg) == [origin |-> <<>>, ver |-> 0, len |-> 0, text |-> msg]
UpstreamBody(url, n) == [origin |-> url, ver |-> n, len |-> BodyLen, text |-> ""]
Truncate(b, n) == [b EXCEPT !.len = n]
IsUpstreamBytes(b) == b.ver > 0
IsComplete(b) == b.ver > 0 /\ b.len = BodyLen

\* zero values of the Go types
NoEntry == [data |-> NoBytes, until |-> 0]
NoResp == [StatusCode |-> 0, Body |-> NoBytes]
NoRequest == [Method |-> "", Path |-> <<>>]
NoWriter ==
    [written |-> FALSE, status |-> 0, contentType |-> "", xCache |-> "",
     allowOrigin |-> "", body |-> NoBytes]

VARIABLES
    now,         \* time.Now(), in minutes
    cache,       \* map[string]cacheEntry: a function on the keys present
    cacheMutex,  \* sync.RWMutex: the tasks holding it shared, the writer
    pc,          \* position of every task
    r,           \* *http.Request of every task
    w,           \* http.ResponseWriter of every task: what the client gets
    upstream,    \* serveCached's parameter
    entry, ok,   \* serveCached's locals of the lookup
    resp, err,   \* result of httpClient.Get
    body,        \* result of io.ReadAll
    served,      \* number of responses the origin has produced
    stores,      \* number of cache writes so far
    calls,       \* history: transport calls issued by the task
    lookupSaw,   \* history: what the cache held for the key at the lookup
    storeSeq,    \* history: rank of the task's cache write, 0 if none
    clientGone   \* the task's client hung up during the transport call

vars ==
    << now, cache, cacheMutex, pc, r, w, upstream, entry, ok, resp, err,
       body, served, stores, lookupSaw, calls, storeSeq, clientGone >>

taskVars ==
    << r, w, upstream, entry, ok, resp, err, body, lookupSaw, calls,
       storeSeq >>

Init ==
    /\ now = 0
    /\ cache = << >>
    /\ cacheMutex = [readers |-> {}, writer |-> 0]
    /\ pc = [t \in Tasks |-> "idle"]
    /\ r = [t \in Tasks |-> NoRequest]
    /\ w = [t \in Tasks |-> NoWriter]
    /\ upstream = [t \in Tasks |-> <<>>]
    /\ entry = [t \in Tasks |-> NoEntry]
    /\ ok = [t \in Tasks |-> FALSE]
    /\ resp = [t \in Tasks |-> NoResp]
    /\ err = [t \in Tasks |-> FALSE]
    /\ body = [t \in Tasks |-> NoBytes]
    /\ served = 0
    /\ stores = 0
    /\ calls = [t \in Tasks |-> 0]
    /\ lookupSaw = [t \in Tasks |-> "none"]
    /\ storeSeq = [t \in Tasks |-> 0]
    /\ clientGone = [t \in Tasks |-> FALSE]

\* ------------------------------------------------------------- helpers
\* the pattern without its anchors: [0-9]+
eventIDRegex_unanchored(id) == \E i \in 1..Len(id) : id[i] \in Digits

\* eventIDRegex.MatchString: ^[0-9]+$
eventIDRegex(id) == Len(id) >= 1 /\ \A i \in 1..Len(id) : id[i] \in Digits

\* http.Error(w, msg, code)
httpError(wr, msg, code) ==
    [wr EXCEPT !.written = TRUE, !.status = code,
               !.contentType = "text/plain; charset=utf-8",
               !.body = Text(msg)]

\* w.Header().Set(...); w.Header().Set("X-Cache", mark); w.Write(data)
writeJSON(wr, mark, data) ==
    [wr EXCEPT !.written = TRUE, !.status = StatusOK,
               !.contentType = "application/json",
               !.xCache = mark, !.body = data]

\* entry, ok := cache[key]
MapGet(m, key) == IF key \in DOMAIN m THEN m[key] ELSE NoEntry
MapHas(m, key) == key \in DOMAIN m
\* an insertion that leaves an existing entry alone
MapPut_keepExisting(m, key, e) ==
    [k \in DOMAIN m \cup {key} |-> IF k \in DOMAIN m THEN m[k] ELSE e]

\* an assignment that makes a new map holding the one entry
MapPut_freshMap(m, key, e) == [k \in {key} |-> e]

\* cache[key] = e
MapPut(m, key, e) ==
    [k \in DOMAIN m \cup {key} |-> IF k = key THEN e ELSE m[k]]

\* After in the place of Before
Before_reversed(t, until) == t > until

\* !After in the place of Before: the expiry instant itself counts as fresh
Before_orEqual(t, until) == t <= until

\* time.Now().Before(entry.until)
Before(t, until) == t < until

\* the entry without the TTL added to the clock
cacheEntry_noTTL(data, t) == [data |-> data, until |-> t]

\* the TTL added twice
cacheEntry_doubleTTL(data, t) == [data |-> data, until |-> t + cacheTTL + cacheTTL]

\* the expiry kept in a counter that wraps around
cacheEntry_wraps(data, t) == [data |-> data, until |-> (t + cacheTTL) % 8]

\* cacheEntry{data: body, until: time.Now().Add(cacheTTL)}
cacheEntry(data, t) == [data |-> data, until |-> t + cacheTTL]

\* ------------------------------------------------------------ handlers
\* The handlers touch no shared state before serveCached, so each maps the
\* response writer and the request to the writer it leaves, the position
\* the task continues at, and the argument it passes to serveCached.
Answered(wr) == [w |-> wr, next |-> "done", upstream |-> <<>>]
Proceed(wr, url) == [w |-> wr, next |-> "rlock", upstream |-> url]

\* the handler returned by proxyStatic(path)
proxyStatic(path, wr, req) ==
    IF req.Method # "GET"
    THEN Answered(httpError(wr, "Method not allowed", StatusMethodNotAllowed))
    ELSE Proceed(wr, <<baseUpstream, path>>)

eventByIDHandler(wr, req) ==
    IF req.Method # "GET"
    THEN Answered(httpError(wr, "Method not allowed", StatusMethodNotAllowed))
    ELSE LET id == SubSeq(req.Path, 2, Len(req.Path)) IN
         IF ~ eventIDRegex(id)
         THEN Answered(httpError(wr, "Invalid event id", StatusBadRequest))
         ELSE Proceed(wr, <<baseUpstream, "/event/">> \o id)

\* mux: the three patterns registered in main
mux(wr, req) ==
    IF req.Path = <<eventsPattern>>
    THEN proxyStatic("/events?show_past=true", wr, req)
    ELSE IF req.Path = <<genresPattern>>
    THEN proxyStatic("/genres", wr, req)
    ELSE eventByIDHandler(wr, req)

\* withCORS(mux): sets the CORS headers, answers OPTIONS itself
withCORS(wr, req) ==
    LET h == [wr EXCEPT !.allowOrigin = "*"] IN
    IF req.Method = "OPTIONS"
    THEN Answered([h EXCEPT !.written = TRUE, !.status = StatusNoContent])
    ELSE mux(h, req)

\* ------------------------------------------------------------- actions
\* server.Handler.ServeHTTP on a new task, up to the call of serveCached.
\* Task numbers carry no meaning: a request takes the lowest free one.
ServeHTTP(t, method, path) ==
    /\ pc[t] = "idle"
    /\ UNCHANGED clientGone
    /\ \A u \in Tasks : u < t => pc[u] # "idle"
    /\ LET req == [Method |-> method, Path |-> path]
           res == withCORS(NoWriter, req)
       IN /\ r' = [r EXCEPT ![t] = req]
          /\ w' = [w EXCEPT ![t] = res.w]
          /\ upstream' = [upstream EXCEPT ![t] = res.upstream]
          /\ pc' = [pc EXCEPT ![t] = res.next]
    /\ UNCHANGED << now, cache, cacheMutex, entry, ok, resp, err, body,
                    served, stores, lookupSaw, calls, storeSeq >>

\* ---- serveCached, lines 87-96: the lookup under the shared lock
\* cacheMutex.RLock(): waits while a writer holds or has requested the lock
RLock(t) ==
    /\ pc[t] = "rlock"
    /\ UNCHANGED clientGone
    /\ cacheMutex.writer = 0
    /\ cacheMutex' = [cacheMutex EXCEPT !.readers = @ \cup {t}]
    /\ pc' = [pc EXCEPT ![t] = "lookup"]
    /\ UNCHANGED << now, cache, served, stores >>
    /\ UNCHANGED taskVars

\* Lookup removing the entry it finds expired
Lookup_reapsExpired(t) ==
    /\ pc[t] = "lookup"
    /\ UNCHANGED clientGone
    /\ entry' = [entry EXCEPT ![t] = MapGet(cache, upstream[t])]
    /\ ok' = [ok EXCEPT ![t] = MapHas(cache, upstream[t])]
    /\ lookupSaw' = [lookupSaw EXCEPT ![t] =
                        IF upstream[t] \notin DOMAIN cache THEN "absent"
                        ELSE IF cache[upstream[t]].until > now THEN "fresh"
                        ELSE "expired"]
    /\ IF MapHas(cache, upstream[t])
          /\ Before(now, MapGet(cache, upstream[t]).until)
       THEN /\ pc' = [pc EXCEPT ![t] = "hit"]
            /\ UNCHANGED cache
       ELSE /\ pc' = [pc EXCEPT ![t] = "runlock"]
            /\ cache' = [k \in DOMAIN cache \ {upstream[t]} |-> cache[k]]
    /\ UNCHANGED << now, cacheMutex, served, stores, r, w,
                    upstream, resp, err, body, calls, storeSeq >>

\* entry, ok := cache[upstream]; if ok && time.Now().Before(entry.until)
\* (no writer can run between the map read and the reading of the clock,
\* so the two are one step)
Lookup(t) ==
    /\ pc[t] = "lookup"
    /\ UNCHANGED clientGone
    /\ entry' = [entry EXCEPT ![t] = MapGet(cache, upstream[t])]
    /\ ok' = [ok EXCEPT ![t] = MapHas(cache, upstream[t])]
    /\ lookupSaw' = [lookupSaw EXCEPT ![t] =
                        IF upstream[t] \notin DOMAIN cache THEN "absent"
                        ELSE IF cache[upstream[t]].until > now THEN "fresh"
                        ELSE "expired"]
    /\ IF MapHas(cache, upstream[t])
          /\ Before(now, MapGet(cache, upstream[t]).until)
       THEN pc' = [pc EXCEPT ![t] = "hit"]
       ELSE pc' = [pc EXCEPT ![t] = "runlock"]
    /\ UNCHANGED << now, cache, cacheMutex, served, stores, r, w,
                    upstream, resp, err, body, calls, storeSeq >>

\* lines 90-92: the HIT response, written while the shared lock is held
WriteHit(t) ==
    /\ pc[t] = "hit"
    /\ UNCHANGED clientGone
    /\ w' = [w EXCEPT ![t] = writeJSON(@, "HIT", entry[t].data)]
    /\ pc' = [pc EXCEPT ![t] = "runlock_hit"]
    /\ UNCHANGED << now, cache, cacheMutex, served, stores, r,
                    upstream, entry, ok, resp, err, body, lookupSaw, calls,
                    storeSeq >>

\* the HIT path returning without RUnlock
RUnlockHit_leaks(t) ==
    /\ pc[t] = "runlock_hit"
    /\ UNCHANGED clientGone
    /\ pc' = [pc EXCEPT ![t] = "done"]
    /\ UNCHANGED << now, cache, cacheMutex, served, stores >>
    /\ UNCHANGED taskVars

\* line 93: cacheMutex.RUnlock(); return
RUnlockHit(t) ==
    /\ pc[t] = "runlock_hit"
    /\ UNCHANGED clientGone
    /\ cacheMutex' = [cacheMutex EXCEPT !.readers = @ \ {t}]
    /\ pc' = [pc EXCEPT ![t] = "done"]
    /\ UNCHANGED << now, cache, served, stores >>
    /\ UNCHANGED taskVars

\* line 96: cacheMutex.RUnlock() on a miss
RUnlockMiss(t) ==
    /\ pc[t] = "runlock"
    /\ UNCHANGED clientGone
    /\ cacheMutex' = [cacheMutex EXCEPT !.readers = @ \ {t}]
    /\ pc' = [pc EXCEPT ![t] = "get"]
    /\ UNCHANGED << now, cache, served, stores >>
    /\ UNCHANGED taskVars

\* ---- serveCached, lines 98-114: the transport call
\* httpClient.Get(upstream) sends the request
GetSend(t) ==
    /\ pc[t] = "get"
    /\ UNCHANGED clientGone
    /\ calls' = [calls EXCEPT ![t] = @ + 1]
    /\ pc' = [pc EXCEPT ![t] = "inflight"]
    /\ UNCHANGED << now, cache, cacheMutex, served, stores, r, w,
                    upstream, entry, ok, resp, err, body, lookupSaw, storeSeq >>

\* GetReturn answering a transport error from the expired entry, if any
GetReturn_staleFallback(t, failed, status) ==
    /\ pc[t] = "inflight"
    /\ UNCHANGED clientGone
    /\ IF failed
       THEN /\ err' = [err EXCEPT ![t] = TRUE]
            /\ w' = [w EXCEPT ![t] =
                        IF ok[t]
                        THEN writeJSON(@, "STALE", entry[t].data)
                        ELSE httpError(@, "Upstream unavailable",
                                       StatusBadGateway)]
            /\ pc' = [pc EXCEPT ![t] = "done"]
            /\ UNCHANGED << resp, served >>
       ELSE /\ served' = served + 1
            /\ resp' = [resp EXCEPT ![t] =
                           [StatusCode |-> status,
                            Body |-> UpstreamBody(upstream[t], served + 1)]]
            /\ pc' = [pc EXCEPT ![t] = "status"]
            /\ UNCHANGED << err, w >>
    /\ UNCHANGED << now, cache, cacheMutex, stores, r, upstream,
                    entry, ok, body, lookupSaw, calls, storeSeq >>

\* httpClient.Get returns: a transport error (timeout, connection, DNS) or
\* a response with some status; lines 99-102 answer the error
GetReturn(t, failed, status) ==
    /\ pc[t] = "inflight"
    /\ UNCHANGED clientGone
    /\ IF failed
       THEN /\ err' = [err EXCEPT ![t] = TRUE]
            /\ w' = [w EXCEPT ![t] = httpError(@, "Upstream unavailable",
                                               StatusBadGateway)]
            /\ pc' = [pc EXCEPT ![t] = "done"]
            /\ UNCHANGED << resp, served >>
       ELSE /\ served' = served + 1
            /\ resp' = [resp EXCEPT ![t] =
                           [StatusCode |-> status,
                            Body |-> UpstreamBody(upstream[t], served + 1)]]
            /\ pc' = [pc EXCEPT ![t] = "status"]
            /\ UNCHANGED << err, w >>
    /\ UNCHANGED << now, cache, cacheMutex, stores, r, upstream,
                    entry, ok, body, lookupSaw, calls, storeSeq >>

\* CheckStatus trying the transport again on a non-OK status
CheckStatus_retry(t) ==
    /\ pc[t] = "status"
    /\ UNCHANGED clientGone
    /\ IF resp[t].StatusCode # StatusOK
       THEN pc' = [pc EXCEPT ![t] = "get"]
       ELSE pc' = [pc EXCEPT ![t] = "read"]
    /\ UNCHANGED << now, cache, cacheMutex, served, stores, r, w,
                    upstream, entry, ok, resp, err, body, lookupSaw, calls,
                    storeSeq >>

\* CheckStatus letting every status through
CheckStatus_anyStatus(t) ==
    /\ pc[t] = "status"
    /\ UNCHANGED clientGone
    /\ pc' = [pc EXCEPT ![t] = "read"]
    /\ UNCHANGED << now, cache, cacheMutex, served, stores, r, w,
                    upstream, entry, ok, resp, err, body, lookupSaw, calls,
                    storeSeq >>

\* lines 105-108: if resp.StatusCode != http.StatusOK
CheckStatus(t) ==
    /\ pc[t] = "status"
    /\ UNCHANGED clientGone
    /\ IF resp[t].StatusCode # StatusOK
       THEN /\ w' = [w EXCEPT ![t] = httpError(@, "Upstream error",
                                               StatusBadGateway)]
            /\ pc' = [pc EXCEPT ![t] = "done"]
       ELSE /\ pc' = [pc EXCEPT ![t] = "read"]
            /\ UNCHANGED w
    /\ UNCHANGED << now, cache, cacheMutex, served, stores, r,
                    upstream, entry, ok, resp, err, body, lookupSaw, calls,
                    storeSeq >>

\* ReadAll whose error branch answers but does not return
ReadAll_noReturn(t, n) ==
    /\ pc[t] = "read"
    /\ UNCHANGED clientGone
    /\ body' = [body EXCEPT ![t] = Truncate(resp[t].Body, n)]
    /\ IF n < BodyLen
       THEN /\ err' = [err EXCEPT ![t] = TRUE]
            /\ w' = [w EXCEPT ![t] =
                        httpError(@, "Failed to read upstream response",
                                  StatusBadGateway)]
       ELSE UNCHANGED << err, w >>
    /\ pc' = [pc EXCEPT ![t] = "lock"]
    /\ UNCHANGED << now, cache, cacheMutex, served, stores, r,
                    upstream, entry, ok, resp, lookupSaw, calls, storeSeq >>

\* ReadAll giving the request up when its client has gone
ReadAll_dropsAbandoned(t, n) ==
    /\ pc[t] = "read"
    /\ UNCHANGED clientGone
    /\ body' = [body EXCEPT ![t] = Truncate(resp[t].Body, n)]
    /\ IF n < BodyLen
       THEN /\ err' = [err EXCEPT ![t] = TRUE]
            /\ w' = [w EXCEPT ![t] =
                        httpError(@, "Failed to read upstream response",
                                  StatusBadGateway)]
            /\ pc' = [pc EXCEPT ![t] = "done"]
       ELSE /\ pc' = [pc EXCEPT ![t] = IF clientGone[t] THEN "done" ELSE "lock"]
            /\ UNCHANGED << err, w >>
    /\ UNCHANGED << now, cache, cacheMutex, served, stores, r,
                    upstream, entry, ok, resp, lookupSaw, calls, storeSeq >>

\* lines 110-114: body, err := io.ReadAll(resp.Body); a failed read returns
\* the n < BodyLen bytes read so far together with the error
ReadAll(t, n) ==
    /\ pc[t] = "read"
    /\ UNCHANGED clientGone
    /\ body' = [body EXCEPT ![t] = Truncate(resp[t].Body, n)]
    /\ IF n < BodyLen
       THEN /\ err' = [err EXCEPT ![t] = TRUE]
            /\ w' = [w EXCEPT ![t] =
                        httpError(@, "Failed to read upstream response",
                                  StatusBadGateway)]
            /\ pc' = [pc EXCEPT ![t] = "done"]
       ELSE /\ pc' = [pc EXCEPT ![t] = "lock"]
            /\ UNCHANGED << err, w >>
    /\ UNCHANGED << now, cache, cacheMutex, served, stores, r,
                    upstream, entry, ok, resp, lookupSaw, calls, storeSeq >>

\* ---- serveCached, lines 116-125: the store under the exclusive lock
\* cacheMutex.Lock(), first half: the writer announces itself, which keeps
\* later readers and writers out
Lock(t) ==
    /\ pc[t] = "lock"
    /\ UNCHANGED clientGone
    /\ cacheMutex.writer = 0
    /\ cacheMutex' = [cacheMutex EXCEPT !.writer = t]
    /\ pc' = [pc EXCEPT ![t] = "lockwait"]
    /\ UNCHANGED << now, cache, served, stores >>
    /\ UNCHANGED taskVars

\* Lock returning without waiting for the readers to leave
LockAcquired_noWait(t) ==
    /\ pc[t] = "lockwait"
    /\ UNCHANGED clientGone
    /\ cacheMutex.writer = t
    /\ pc' = [pc EXCEPT ![t] = "store"]
    /\ UNCHANGED << now, cache, cacheMutex, served, stores >>
    /\ UNCHANGED taskVars

\* cacheMutex.Lock(), second half: returns once the readers have left
LockAcquired(t) ==
    /\ pc[t] = "lockwait"
    /\ UNCHANGED clientGone
    /\ cacheMutex.writer = t
    /\ cacheMutex.readers = {}
    /\ pc' = [pc EXCEPT ![t] = "store"]
    /\ UNCHANGED << now, cache, cacheMutex, served, stores >>
    /\ UNCHANGED taskVars

\* Store replacing the payload of an existing entry but not its expiry
Store_keepsExpiry(t) ==
    /\ pc[t] = "store"
    /\ UNCHANGED clientGone
    /\ cache' = MapPut(cache, upstream[t],
                       IF MapHas(cache, upstream[t])
                       THEN [data |-> body[t],
                             until |-> cache[upstream[t]].until]
                       ELSE cacheEntry(body[t], now))
    /\ stores' = stores + 1
    /\ storeSeq' = [storeSeq EXCEPT ![t] = stores + 1]
    /\ pc' = [pc EXCEPT ![t] = "unlock"]
    /\ UNCHANGED << now, cacheMutex, served, r, w, upstream, entry,
                    ok, resp, err, body, lookupSaw, calls >>

\* Store looking again under the exclusive lock and leaving a fresh entry
\* that another task has stored meanwhile
Store_doubleChecked(t) ==
    /\ pc[t] = "store"
    /\ UNCHANGED clientGone
    /\ IF MapHas(cache, upstream[t])
          /\ Before(now, MapGet(cache, upstream[t]).until)
       THEN UNCHANGED << cache, stores, storeSeq >>
       ELSE /\ cache' = MapPut(cache, upstream[t], cacheEntry(body[t], now))
            /\ stores' = stores + 1
            /\ storeSeq' = [storeSeq EXCEPT ![t] = stores + 1]
    /\ pc' = [pc EXCEPT ![t] = "unlock"]
    /\ UNCHANGED << now, cacheMutex, served, r, w, upstream, entry,
                    ok, resp, err, body, lookupSaw, calls >>

\* the store keyed by the route alone, the identifier dropped
Store_byRoute(t) ==
    /\ pc[t] = "store"
    /\ UNCHANGED clientGone
    /\ cache' = MapPut(cache, SubSeq(upstream[t], 1, 2), cacheEntry(body[t], now))
    /\ stores' = stores + 1
    /\ storeSeq' = [storeSeq EXCEPT ![t] = stores + 1]
    /\ pc' = [pc EXCEPT ![t] = "unlock"]
    /\ UNCHANGED << now, cacheMutex, served, r, w, upstream, entry,
                    ok, resp, err, body, lookupSaw, calls >>

\* lines 117-120: cache[upstream] = cacheEntry{body, time.Now().Add(cacheTTL)}
Store(t) ==
    /\ pc[t] = "store"
    /\ UNCHANGED clientGone
    /\ cache' = MapPut(cache, upstream[t], cacheEntry(body[t], now))
    /\ stores' = stores + 1
    /\ storeSeq' = [storeSeq EXCEPT ![t] = stores + 1]
    /\ pc' = [pc EXCEPT ![t] = "unlock"]
    /\ UNCHANGED << now, cacheMutex, served, r, w, upstream, entry,
                    ok, resp, err, body, lookupSaw, calls >>

\* line 121: cacheMutex.Unlock()
Unlock(t) ==
    /\ pc[t] = "unlock"
    /\ UNCHANGED clientGone
    /\ cacheMutex' = [cacheMutex EXCEPT !.writer = 0]
    /\ pc' = [pc EXCEPT ![t] = "respond"]
    /\ UNCHANGED << now, cache, served, stores >>
    /\ UNCHANGED taskVars

\* lines 123-125: the MISS response
WriteMiss(t) ==
    /\ pc[t] = "respond"
    /\ UNCHANGED clientGone
    /\ w' = [w EXCEPT ![t] = writeJSON(@, "MISS", body[t])]
    /\ pc' = [pc EXCEPT ![t] = "done"]
    /\ UNCHANGED << now, cache, cacheMutex, served, stores, r,
                    upstream, entry, ok, resp, err, body, lookupSaw, calls,
                    storeSeq >>

\* the clock advances by a minute
Tick ==
    /\ now < MaxTime
    /\ UNCHANGED clientGone
    /\ now' = now + 1
    /\ UNCHANGED << cache, cacheMutex, pc, served, stores >>
    /\ UNCHANGED taskVars

\* The client of task t closes its connection while the transport call is
\* in flight.  The server cancels r.Context(), which serveCached never
\* reads: httpClient.Get is called without a context and the results of
\* w.Write are dropped.  Nothing but the record of the event changes; a
\* client closing at any other stage changes nothing at all.
ClientDisconnect(t) ==
    /\ pc[t] = "inflight"
    /\ ~ clientGone[t]
    /\ clientGone' = [clientGone EXCEPT ![t] = TRUE]
    /\ UNCHANGED << now, cache, cacheMutex, pc, served, stores >>
    /\ UNCHANGED taskVars

\* the health of the origin decides how a transport call in flight returns
Transport(t) ==
    \E failed \in BOOLEAN, status \in UpstreamStatuses :
        GetReturn(t, failed, status)

\* a step of task t inside serveCached
serveCached(t) ==
    \/ RLock(t)
    \/ Lookup(t)
    \/ WriteHit(t)
    \/ RUnlockHit(t)
    \/ RUnlockMiss(t)
    \/ GetSend(t)
    \/ Transport(t)
    \/ CheckStatus(t)
    \/ \E n \in 0..BodyLen : ReadAll(t, n)
    \/ Lock(t)
    \/ LockAcquired(t)
    \/ Store(t)
    \/ Unlock(t)
    \/ WriteMiss(t)

Next ==
    \/ \E t \in Tasks, m \in Methods : ServeHTTP(t, m, <<eventsPattern>>)
    \/ \E t \in Tasks, m \in Methods : ServeHTTP(t, m, <<genresPattern>>)
    \/ \E t \in Tasks, m \in Methods, i \in IdInputs :
          ServeHTTP(t, m, <<eventPattern>> \o i)
    \/ \E t \in Tasks : serveCached(t)
    \/ \E t \in Tasks : ClientDisconnect(t)
    \/ Tick

Spec == Init /\ [][Next]_vars

\* The Go scheduler runs every runnable goroutine, the transport call ends
\* by its 10 s timeout at the latest, and sync.RWMutex starves nobody: a
\* task that can take a step of serveCached eventually takes one.
FairSpec == Spec /\ \A t \in Tasks : WF_vars(serveCached(t))

\* ------------------------------------------------------------------ claims
\* a response with status OK, the JSON content type and the given mark
IsJSON(wr, mark, data) ==
    /\ wr.written
    /\ wr.status = StatusOK
    /\ wr.contentType = "application/json"
    /\ wr.xCache = mark
    /\ wr.body = data

\* C1: a request whose lookup finds an entry for its key with an expiry
\* strictly after the current time answers with exactly that entry's
\* payload, marked HIT, and makes no transport call and no cache write.
C1_FreshEntryIsServedAsHit ==
    \A t \in Tasks :
        lookupSaw[t] = "fresh" =>
            /\ calls[t] = 0
            /\ storeSeq[t] = 0
            /\ pc[t] \in {"hit", "runlock_hit", "done"}
            /\ pc[t] \in {"hit", "runlock_hit"} =>
                   /\ upstream[t] \in DOMAIN cache
                   /\ cache[upstream[t]] = entry[t]
            /\ pc[t] # "hit" => IsJSON(w[t], "HIT", entry[t].data)

C1_Witness ==
    \E t \in Tasks :
        /\ pc[t] = "done"
        /\ lookupSaw[t] = "fresh"
        /\ w[t].xCache = "HIT"
        /\ IsComplete(w[t].body)

\* C2: a request whose lookup finds no entry, or an entry whose expiry is
\* at or before the current time, is never answered from the cache: it goes
\* on to one transport call, and when the fetch succeeds it answers with
\* the fetched body marked MISS.
C2_Safety ==
    \A t \in Tasks :
        lookupSaw[t] \in {"absent", "expired"} =>
            /\ pc[t] \notin {"hit", "runlock_hit"}
            /\ w[t].xCache # "HIT"
            /\ (w[t].written /\ ok[t]) => w[t].body # entry[t].data
            /\ pc[t] = "done" => calls[t] = 1
            /\ (pc[t] = "done" /\ ~ err[t] /\ resp[t].StatusCode = StatusOK)
                   => IsJSON(w[t], "MISS", resp[t].Body)

C2_StaleEntryIsRefetched ==
    /\ [] C2_Safety
    /\ \A t \in Tasks :
           (lookupSaw[t] \in {"absent", "expired"}) ~> (calls[t] = 1)

C2_Witness ==
    \E t \in Tasks :
        /\ pc[t] = "done"
        /\ lookupSaw[t] = "expired"
        /\ entry[t].until < now
        /\ calls[t] = 1
        /\ w[t].xCache = "MISS"

\* the request of task t has ended in one of the three upstream failures
UpstreamFailed(t) ==
    /\ pc[t] = "done"
    /\ err[t] \/ resp[t].StatusCode \notin {0, StatusOK}

\* the fetch of task t got status OK and its body was read to the end
FetchedOK(t) ==
    /\ ~ err[t]
    /\ resp[t].StatusCode = StatusOK
    /\ IsComplete(body[t])

\* task t takes the step that assigns to the map
StoreStep(t) == pc[t] = "store" /\ pc'[t] = "unlock"

\* C3: a miss whose fetch got status OK and a fully read body stores that
\* complete body under its key with expiry = time of the store + 5 minutes
\* (so that the map holds exactly that entry right after the store) and
\* answers with the same body marked MISS.
C3_StoreInv ==
    \A t \in Tasks :
        FetchedOK(t) =>
            /\ body[t] = resp[t].Body
            /\ pc[t] \in {"lock", "lockwait", "store", "unlock", "respond",
                          "done"}
            /\ pc[t] = "unlock" =>
                   /\ upstream[t] \in DOMAIN cache
                   /\ cache[upstream[t]].data = resp[t].Body
            /\ pc[t] = "done" =>
                   /\ storeSeq[t] > 0
                   /\ IsJSON(w[t], "MISS", resp[t].Body)

C3_SuccessfulMissStores ==
    /\ [] C3_StoreInv
    /\ [][ \A t \in Tasks :
             StoreStep(t) =>
                 /\ FetchedOK(t)
                 /\ upstream[t] \in DOMAIN cache'
                 /\ cache'[upstream[t]] =
                        [data |-> resp[t].Body, until |-> now + cacheTTL] ]_vars

C3_Witness ==
    \E t \in Tasks :
        /\ pc[t] = "done"
        /\ lookupSaw[t] = "absent"
        /\ now > 0
        /\ upstream[t] \in DOMAIN cache
        /\ cache[upstream[t]] = [data |-> resp[t].Body, until |-> now + cacheTTL]
        /\ IsJSON(w[t], "MISS", resp[t].Body)

\* C4: a request that ends in a transport error, a non-OK status or a read
\* failure writes nothing to the cache: the map changes only by the store
\* of a task whose fetch succeeded, and only at that task's key.
C4_FailedInv ==
    \A t \in Tasks :
        UpstreamFailed(t) =>
            /\ storeSeq[t] = 0
            /\ w[t].status = StatusBadGateway

C4_FailureWritesNothing ==
    /\ [] C4_FailedInv
    /\ [][ cache' # cache =>
             \E t \in Tasks :
                 /\ StoreStep(t)
                 /\ FetchedOK(t)
                 /\ DOMAIN cache' = DOMAIN cache \cup {upstream[t]}
                 /\ \A k \in DOMAIN cache \ {upstream[t]} :
                        cache'[k] = cache[k] ]_vars

\* a request for K failed on status 500 without leaving an entry, and the
\* fetch that the origin answered next, for the same K, populated the cache
C4_Witness ==
    \E t1, t2 \in Tasks :
        /\ UpstreamFailed(t1)
        /\ resp[t1].StatusCode = 500
        /\ lookupSaw[t1] = "absent"
        /\ upstream[t2] = upstream[t1]
        /\ pc[t2] = "done"
        /\ lookupSaw[t2] = "absent"
        /\ resp[t2].Body.ver > resp[t1].Body.ver
        /\ IsJSON(w[t2], "MISS", resp[t2].Body)
        /\ upstream[t2] \in DOMAIN cache
        /\ cache[upstream[t2]].data = resp[t2].Body

\* C5: when the key has an expired entry and the refresh fails, the request
\* answers 502 with diagnostic text, never the expired payload, after one
\* transport call.
C5_NoStaleFallback ==
    \A t \in Tasks :
        (lookupSaw[t] = "expired" /\ UpstreamFailed(t)) =>
            /\ w[t].written
            /\ w[t].status = StatusBadGateway
            /\ w[t].xCache = ""
            /\ ~ IsUpstreamBytes(w[t].body)
            /\ w[t].body # entry[t].data
            /\ calls[t] = 1

C5_Witness ==
    \E t \in Tasks :
        /\ lookupSaw[t] = "expired"
        /\ IsComplete(entry[t].data)
        /\ UpstreamFailed(t)
        /\ resp[t] = NoResp
        /\ w[t].status = StatusBadGateway

\* one or more ASCII digits
OnlyDigits(id) ==
    /\ id # << >>
    /\ \A i \in DOMAIN id :
           id[i] \in {"0", "1", "2", "3", "4", "5", "6", "7", "8", "9"}

\* task t serves a request of the event-by-id resource
ByID(t) == pc[t] # "idle" /\ Len(r[t].Path) >= 1 /\ r[t].Path[1] = eventPattern

\* task t has never entered serveCached
NeverServed(t) ==
    /\ pc[t] = "done"
    /\ upstream[t] = << >>
    /\ lookupSaw[t] = "none"
    /\ calls[t] = 0
    /\ storeSeq[t] = 0
    /\ t \notin cacheMutex.readers
    /\ cacheMutex.writer # t

\* C6: on the event-by-id resource an identifier that is not one or more
\* ASCII digits never reaches serveCached (no lookup, no write, no
\* transport call) and a GET with it is answered 400; a GET with a
\* digits-only identifier is passed to serveCached with that
\* identifier's upstream URL.
C6_ValidationGate ==
    \A t \in Tasks :
        ByID(t) =>
            LET id == Tail(r[t].Path) IN
            IF OnlyDigits(id)
            THEN r[t].Method = "GET" =>
                     /\ upstream[t] = <<baseUpstream, "/event/">> \o id
                     /\ w[t].status # StatusBadRequest
            ELSE /\ NeverServed(t)
                 /\ w[t].written
                 /\ w[t].status # StatusOK
                 /\ r[t].Method = "GET" =>
                        /\ w[t].status = StatusBadRequest
                        /\ w[t].body = Text("Invalid event id")

C6_Witness ==
    \E t1, t2 \in Tasks :
        /\ r[t1] = [Method |-> "GET", Path |-> <<eventPattern, "1", "2", "a">>]
        /\ NeverServed(t1)
        /\ w[t1].status = StatusBadRequest
        /\ r[t2] = [Method |-> "GET", Path |-> <<eventPattern, "1", "2", "3">>]
        /\ upstream[t2] = <<baseUpstream, "/event/", "1", "2", "3">>
        /\ calls[t2] = 1

\* C7: requests are not coalesced: each task that misses makes its own
\* transport call and gets its own response, and of the tasks that stored
\* under a key the one that stored last is the one whose body the map holds.
C7_LastStoreWins ==
    /\ \A t \in Tasks :
           storeSeq[t] > 0 =>
               /\ calls[t] = 1
               /\ \A u \in Tasks \ {t} : resp[u].Body # resp[t].Body
    /\ \A t \in Tasks :
           ( /\ storeSeq[t] > 0
             /\ \A u \in Tasks \ {t} :
                    upstream[u] = upstream[t] => storeSeq[u] < storeSeq[t] )
           => /\ upstream[t] \in DOMAIN cache
              /\ cache[upstream[t]].data = resp[t].Body

C7_Witness ==
    \E t1, t2 \in Tasks :
        /\ upstream[t1] = upstream[t2]
        /\ lookupSaw[t1] = "absent" /\ lookupSaw[t2] = "absent"
        /\ calls[t1] = 1 /\ calls[t2] = 1
        /\ pc[t1] = "done" /\ pc[t2] = "done"
        /\ IsJSON(w[t1], "MISS", resp[t1].Body)
        /\ IsJSON(w[t2], "MISS", resp[t2].Body)
        /\ 0 < storeSeq[t1] /\ storeSeq[t1] < storeSeq[t2]
        /\ cache[upstream[t2]].data = resp[t2].Body
        /\ cache[upstream[t2]].data # resp[t1].Body

\* C8: a store under a key that already has an entry A replaces it: the map
\* then holds under that key the new body B with expiry = time of B's
\* store + 5 minutes, no key is added, and A's payload is in the map no more.
C8_Replacement ==
    [][ \A t \in Tasks :
          (StoreStep(t) /\ upstream[t] \in DOMAIN cache) =>
              LET A == cache[upstream[t]] IN
              /\ DOMAIN cache' = DOMAIN cache
              /\ cache'[upstream[t]] =
                     [data |-> body[t], until |-> now + cacheTTL]
              /\ A.data # body[t]
              /\ \A k \in DOMAIN cache' : cache'[k].data # A.data ]_vars

C8_Witness ==
    \E t \in Tasks :
        /\ pc[t] = "unlock"
        /\ lookupSaw[t] = "expired"
        /\ cache[upstream[t]].data = body[t]
        /\ cache[upstream[t]].data # entry[t].data
        /\ cache[upstream[t]].until = entry[t].until + cacheTTL + 1

\* the number of transport calls of all tasks
RECURSIVE SumCalls(_)
SumCalls(T) ==
    IF T = {} THEN 0
    ELSE LET t == CHOOSE x \in T : TRUE IN calls[t] + SumCalls(T \ {t})

\* C9: a request makes at most one transport call, and none when it is
\* served as HIT, when its event identifier is invalid or when its method
\* is not GET.
C9_AtMostOneCall ==
    /\ served <= SumCalls(Tasks)
    /\ \A t \in Tasks :
           /\ calls[t] <= 1
           /\ (lookupSaw[t] = "fresh" \/ w[t].xCache = "HIT") => calls[t] = 0
           /\ (pc[t] # "idle" /\ r[t].Method # "GET") => calls[t] = 0
           /\ (ByID(t) /\ ~ OnlyDigits(Tail(r[t].Path))) => calls[t] = 0

C9_Witness ==
    \E t \in Tasks :
        /\ UpstreamFailed(t)
        /\ resp[t].StatusCode = 500
        /\ calls[t] = 1
        /\ served = 1

\* C10: a response with status OK carries the complete body of an upstream
\* response that had status OK (fetched by the task, or by the task whose
\* store the HIT is served from); any other response carries no upstream
\* bytes and no cache mark; the map holds complete OK bodies only.
C10_NoPartialPayload ==
    /\ \A t \in Tasks :
           w[t].written =>
               IF w[t].status = StatusOK
               THEN /\ w[t].xCache \in {"HIT", "MISS"}
                    /\ IsComplete(w[t].body)
                    /\ \E u \in Tasks :
                           /\ FetchedOK(u)
                           /\ resp[u].Body = w[t].body
               ELSE /\ w[t].xCache = ""
                    /\ ~ IsUpstreamBytes(w[t].body)
    /\ \A k \in DOMAIN cache :
           /\ IsComplete(cache[k].data)
           /\ \E u \in Tasks : FetchedOK(u) /\ resp[u].Body = cache[k].data

C10_Witness ==
    \E t1, t2 \in Tasks :
        /\ UpstreamFailed(t1)
        /\ resp[t1].StatusCode = StatusOK
        /\ IsUpstreamBytes(body[t1])
        /\ ~ IsComplete(body[t1])
        /\ w[t1].status = StatusBadGateway
        /\ pc[t2] = "done"
        /\ IsJSON(w[t2], "MISS", resp[t2].Body)

\* C11: no eviction: no step removes a key from the map, so a key that has
\* an entry keeps one (replaced or not, stale or not) for ever after.
C11_NoEviction ==
    [][ /\ DOMAIN cache \subseteq DOMAIN cache'
        /\ \A k \in DOMAIN cache :
               cache'[k] # cache[k] =>
                   \E t \in Tasks : StoreStep(t) /\ upstream[t] = k ]_vars

\* a stale entry is still in the map while another key is stored
C11_Witness ==
    \E k1, k2 \in DOMAIN cache :
        /\ k1 # k2
        /\ cache[k1].until < now
        /\ cache[k2].until > now
        /\ \E t \in Tasks : upstream[t] = k2 /\ pc[t] = "unlock"

\* task t holds the lock, shared or exclusive
HoldsLock(t) ==
    \/ t \in cacheMutex.readers
    \/ cacheMutex.writer = t /\ pc[t] \in {"store", "unlock"}

\* C12: no I/O under the lock: a task that holds the read or the write lock
\* has no transport call in flight and has not written its response.
C12_NoIOUnderLock ==
    \A t \in Tasks :
        HoldsLock(t) =>
            /\ pc[t] \notin {"inflight", "status", "read"}
            /\ ~ w[t].written

\* task t is between RLock and RUnlock
InReadSection(t) == pc[t] \in {"lookup", "hit", "runlock_hit", "runlock"}

\* task t is between the return of Lock and Unlock
InWriteSection(t) == pc[t] \in {"store", "unlock"}

\* C13: lock discipline: while a task is in the exclusive section no other
\* task is in a read section or in the exclusive section; the map is read
\* only by a task holding the shared lock and written only by the task
\* holding the exclusive lock; readers do not exclude each other.
C13_Exclusion ==
    \A t \in Tasks :
        /\ InReadSection(t) <=> t \in cacheMutex.readers
        /\ InWriteSection(t) =>
               /\ cacheMutex.writer = t
               /\ cacheMutex.readers = {}
               /\ \A u \in Tasks \ {t} :
                      ~ InReadSection(u) /\ ~ InWriteSection(u)

C13_LockDiscipline ==
    /\ [] C13_Exclusion
    /\ [][ /\ \A t \in Tasks :
                  (entry'[t] # entry[t] \/ ok'[t] # ok[t]) =>
                      /\ t \in cacheMutex.readers
                      /\ \A u \in Tasks : ~ InWriteSection(u)
           /\ cache' # cache =>
                  \E t \in Tasks :
                      /\ InWriteSection(t)
                      /\ cacheMutex.writer = t
                      /\ cacheMutex.readers = {} ]_vars

\* two tasks for one key are in their read sections at once
C13_Witness ==
    \E t1, t2 \in Tasks :
        /\ t1 # t2
        /\ upstream[t1] = upstream[t2]
        /\ pc[t1] = "runlock" /\ pc[t2] = "runlock"
        /\ cacheMutex.readers = {t1, t2}
        /\ cacheMutex.writer = 0

\* no task for key k is between its transport call and its store
Quiescent(k) ==
    \A t \in Tasks :
        upstream[t] = k =>
            pc[t] \notin {"inflight", "status", "read", "lock", "lockwait",
                          "store"}

\* the tasks whose fetch for key k succeeded
Fetchers(k) == {t \in Tasks : upstream[t] = k /\ FetchedOK(t)}

\* C14 as stated: when no task for K is between its transport call and its
\* store, the map holds for K the body of the successful upstream response
\* for K that was received last.
C14_LatestResponseCached ==
    \A k \in DOMAIN cache :
        Quiescent(k) =>
            \A t \in Fetchers(k) :
                (\A u \in Fetchers(k) : resp[u].Body.ver <= resp[t].Body.ver)
                    => cache[k].data = resp[t].Body

\* C14 as amended: when no task for K is between its transport call and its
\* store, every successful fetch for K has been stored and the map holds
\* for K the body of the one stored last, whichever was received last.
C14_LastStoredCached ==
    \A k \in DOMAIN cache :
        Quiescent(k) =>
            /\ Fetchers(k) # {}
            /\ \A t \in Fetchers(k) :
                   /\ storeSeq[t] > 0
                   /\ (\A u \in Fetchers(k) : storeSeq[u] <= storeSeq[t])
                          => cache[k].data = resp[t].Body

\* the response received first was stored last and is the one cached
C14_Witness ==
    \E t1, t2 \in Tasks :
        /\ upstream[t1] = upstream[t2]
        /\ upstream[t1] \in DOMAIN cache
        /\ Quiescent(upstream[t1])
        /\ Fetchers(upstream[t1]) = {t1, t2}
        /\ resp[t1].Body.ver < resp[t2].Body.ver
        /\ storeSeq[t2] < storeSeq[t1]
        /\ cache[upstream[t1]].data = resp[t1].Body

\* C15: bounded staleness: every entry of the map expires at most 5 minutes
\* from now, and an entry that a freshness check lets through as HIT was
\* stored strictly less than 5 minutes before that check.
C15_ExpiryBound ==
    \A k \in DOMAIN cache : cache[k].until <= now + cacheTTL

C15_BoundedStaleness ==
    /\ [] C15_ExpiryBound
    /\ [][ \A t \in Tasks :
             (pc[t] = "lookup" /\ pc'[t] = "hit") =>
                 LET storedAt == cache[upstream[t]].until - cacheTTL IN
                 /\ entry'[t] = cache[upstream[t]]
                 /\ storedAt <= now
                 /\ now - storedAt < cacheTTL ]_vars

\* a HIT on an entry stored 4 minutes before the check
C15_Witness ==
    \E t \in Tasks :
        /\ pc[t] = "done"
        /\ w[t].xCache = "HIT"
        /\ upstream[t] \in DOMAIN cache
        /\ cache[upstream[t]] = entry[t]
        /\ now - (entry[t].until - cacheTTL) = cacheTTL - 1

\* task t has read the map and still holds the shared lock
HasRead(t) == pc[t] \in {"hit", "runlock_hit", "runlock"}

\* C16: reads have no side effects: no step of a task from RLock to RUnlock,
\* and so no step of a request served as HIT, changes the map; what a task
\* has read is what the map holds as long as it keeps the shared lock, so
\* lookups of one key with no store in between return identical entries.
C16_ReadInv ==
    \A t \in Tasks :
        /\ HasRead(t) =>
               /\ ok[t] = MapHas(cache, upstream[t])
               /\ entry[t] = MapGet(cache, upstream[t])
               /\ \A u \in Tasks :
                      (HasRead(u) /\ upstream[u] = upstream[t]) =>
                          entry[u] = entry[t] /\ ok[u] = ok[t]
        /\ lookupSaw[t] = "fresh" => storeSeq[t] = 0

C16_ReadsHaveNoSideEffects ==
    /\ [] C16_ReadInv
    /\ [][ \A t \in Tasks :
             ( /\ pc[t] \in {"rlock", "lookup", "hit", "runlock_hit",
                             "runlock"}
               /\ pc'[t] # pc[t] )
             => cache' = cache ]_vars

\* a request has been served as HIT and the entry it read is still the
\* entry of the map, as the other task stored it
C16_Witness ==
    \E t, u \in Tasks :
        /\ pc[t] = "done"
        /\ w[t].xCache = "HIT"
        /\ upstream[t] \in DOMAIN cache
        /\ cache[upstream[t]] = entry[t]
        /\ storeSeq[u] = 1 /\ stores = 1
        /\ entry[t].data = resp[u].Body

\* C17: a client that hangs up while the transport call of its request is
\* in flight cancels nothing: the call returns, the task runs to its end,
\* and when the fetch succeeded the entry is stored like any other (and
\* serves later requests as HIT).
C17_AbandonedInv ==
    \A t \in Tasks :
        clientGone[t] =>
            /\ calls[t] = 1
            /\ pc[t] \in {"inflight", "status", "read", "lock", "lockwait",
                          "store", "unlock", "respond", "done"}
            /\ (FetchedOK(t) /\ pc[t] \in {"unlock", "respond", "done"}) =>
                   /\ storeSeq[t] > 0
                   /\ upstream[t] \in DOMAIN cache
            /\ (FetchedOK(t) /\ pc[t] = "done") =>
                   IsJSON(w[t], "MISS", resp[t].Body)

C17_AbandonmentCancelsNothing ==
    /\ [] C17_AbandonedInv
    /\ \A t \in Tasks : clientGone[t] ~> (pc[t] = "done")

\* the entry stored by an abandoned request has served another as HIT
C17_Witness ==
    \E t, u \in Tasks :
        /\ clientGone[t]
        /\ pc[t] = "done"
        /\ storeSeq[t] = 1
        /\ pc[u] = "done"
        /\ IsJSON(w[u], "HIT", resp[t].Body)

\* a task that has left serveCached, or was answered before reaching it
Exited(t) == pc[t] = "done"

\* C18: a task that has left serveCached, on any path, holds neither the
\* shared nor the exclusive lock, and when no task is inside the lock is free
C18_ExitInv ==
    /\ \A t \in Tasks :
           (Exited(t) \/ pc[t] = "respond") =>
               /\ t \notin cacheMutex.readers
               /\ cacheMutex.writer # t
    /\ (\A t \in Tasks : pc[t] \in {"idle", "done"}) =>
           cacheMutex = [readers |-> {}, writer |-> 0]

\* C18: when every transport call returns and every step is eventually
\* taken, every request terminates, and it leaves no lock behind: no
\* request is blocked forever by the outcome of another.
C18_TerminatesLockFree ==
    /\ [] C18_ExitInv
    /\ \A t \in Tasks : (pc[t] # "idle") ~> Exited(t)

\* one request failed at the transport, another completed a MISS, and both
\* have returned with the lock free
C18_Witness ==
    \E t, u \in Tasks :
        /\ Exited(t) /\ Exited(u)
        /\ calls[t] = 1 /\ w[t].status = StatusBadGateway
        /\ storeSeq[u] = 1 /\ w[u].xCache = "MISS"
        /\ cacheMutex = [readers |-> {}, writer |-> 0]

\* C19: the clock never runs backwards, and across every step the expiry
\* cached under a key never decreases (nor is the key removed): a store
\* computes the expiry from the clock while it holds the exclusive lock.
C19_ExpiryStep ==
    /\ now' >= now
    /\ \A k \in DOMAIN cache :
           /\ k \in DOMAIN cache'
           /\ cache'[k].until >= cache[k].until

C19_ExpiryNeverDecreases == [][C19_ExpiryStep]_vars

\* a task looked an expired entry up and has replaced it, as the second
\* store, with an entry that expires later
C19_Witness ==
    \E t \in Tasks :
        /\ storeSeq[t] = 2
        /\ lookupSaw[t] = "expired"
        /\ entry[t].until > 0
        /\ upstream[t] \in DOMAIN cache
        /\ cache[upstream[t]].until > entry[t].until

\* the upstream URLs of the two static resources
StaticURLs ==
    { <<baseUpstream, "/events?show_past=true">>, <<baseUpstream, "/genres">> }

\* the upstream URL of the event with a digits-only identifier
IsByIdURL(k) ==
    /\ Len(k) > 2
    /\ k[1] = baseUpstream
    /\ k[2] = "/event/"
    /\ OnlyDigits(SubSeq(k, 3, Len(k)))

\* C20: key isolation: every key of the cache is one of the two static
\* upstream URLs or the by-id URL of a digits-only identifier, the payload
\* cached under a key is a complete body fetched from that very URL, and a
\* request is looked up, and answered with HIT or MISS, only with a body
\* fetched from its own upstream URL.
C20_KeyIsolation ==
    /\ \A k \in DOMAIN cache :
           /\ k \in StaticURLs \/ IsByIdURL(k)
           /\ cache[k].data.origin = k
           /\ IsComplete(cache[k].data)
    /\ \A t \in Tasks :
           /\ ok[t] => entry[t].data.origin = upstream[t]
           /\ IsUpstreamBytes(body[t]) => body[t].origin = upstream[t]
           /\ w[t].xCache \in {"HIT", "MISS"} =>
                  /\ upstream[t] \in StaticURLs \/ IsByIdURL(upstream[t])
                  /\ w[t].body.origin = upstream[t]

\* two requests for different keys, a static one and a by-id one, have
\* both been answered from the origin and both keys are cached
C20_Witness ==
    \E t, u \in Tasks :
        /\ pc[t] = "done" /\ pc[u] = "done"
        /\ upstream[t] \in StaticURLs
        /\ IsByIdURL(upstream[u])
        /\ w[t].xCache = "MISS" /\ w[u].xCache = "MISS"
        /\ DOMAIN cache = {upstream[t], upstream[u]}

====
